---- MODULE Spec2Model ----
(***************************************************************************)
(* Model of Basics/arp_watch/arp_watch.py: the gateway-MAC monitor.        *)
(*                                                                         *)
(* Python str values are TLA+ strings; a character is a string of length   *)
(* one.  Python's None is the value None below, which no str operation of  *)
(* the program can produce.  The event sink (log) is modelled as the       *)
(* sequence of the lines it was given; writing a line never fails.         *)
(***************************************************************************)
EXTENDS Integers, Sequences, FiniteSets, TLC

\* ------------------------------------------------------------------------
\* Python values and str methods used by the program
\* ------------------------------------------------------------------------

None == "<None>"

\* Python truthiness of an Optional[str]: None and "" are falsy.
Truthy(x) == x # None /\ x # ""

Char(s, i) == SubSeq(s, i, i)

UpperLetters == "ABCDEFGHIJKLMNOPQRSTUVWXYZ"

LowerLetters == "abcdefghijklmnopqrstuvwxyz"

\* str.lower() on one character
LowerChar(c) ==
    IF \E i \in 1..Len(UpperLetters) : Char(UpperLetters, i) = c
    THEN LET i == CHOOSE j \in 1..Len(UpperLetters) : Char(UpperLetters, j) = c
         IN  Char(LowerLetters, i)
    ELSE c

RECURSIVE Lower(_)
\* str.lower()
Lower(s) == IF s = "" THEN "" ELSE LowerChar(Head(s)) \o Lower(Tail(s))

RECURSIVE ReplaceChar(_, _, _)
\* str.replace(old, new) for a one-character old
ReplaceChar(s, old, new) ==
    IF s = "" THEN ""
    ELSE (IF Head(s) = old THEN new ELSE Head(s)) \o ReplaceChar(Tail(s), old, new)

RECURSIVE Count(_, _)
\* str.count(c) for a one-character c
Count(s, c) ==
    IF s = "" THEN 0
    ELSE (IF Head(s) = c THEN 1 ELSE 0) + Count(Tail(s), c)

RECURSIVE SplitOn(_, _)
\* str.split(sep) for a one-character sep: empty pieces are kept
SplitOn(s, sep) ==
    IF \A i \in 1..Len(s) : Char(s, i) # sep
    THEN <<s>>
    ELSE LET i == CHOOSE j \in 1..Len(s) :
                     /\ Char(s, j) = sep
                     /\ \A k \in 1..(j - 1) : Char(s, k) # sep
         IN  <<SubSeq(s, 1, i - 1)>> \o SplitOn(SubSeq(s, i + 1, Len(s)), sep)

IsSpace(c) == c \in {" ", "\t", "\n", "\r"}

RECURSIVE SplitWs(_)
\* str.split() with no argument: runs of whitespace separate, no empty piece
SplitWs(s) ==
    IF \A i \in 1..Len(s) : IsSpace(Char(s, i))
    THEN <<>>
    ELSE LET b == CHOOSE j \in 1..Len(s) :
                     /\ ~IsSpace(Char(s, j))
                     /\ \A k \in 1..(j - 1) : IsSpace(Char(s, k))
             e == CHOOSE j \in b..Len(s) :
                     /\ \A k \in b..j : ~IsSpace(Char(s, k))
                     /\ (j = Len(s) \/ IsSpace(Char(s, j + 1)))
         IN  <<SubSeq(s, b, e)>> \o SplitWs(SubSeq(s, e + 1, Len(s)))

\* str.splitlines() of text-mode output (line ends are "\n"): no trailing
\* empty line
SplitLines(s) ==
    IF s = "" THEN <<>>
    ELSE LET ps == SplitOn(s, "\n")
         IN  IF ps[Len(ps)] = "" THEN SubSeq(ps, 1, Len(ps) - 1) ELSE ps

\* the `in` operator on str: sub occurs in s
Contains(s, sub) ==
    \E i \in 1..(Len(s) - Len(sub) + 1) : SubSeq(s, i, i + Len(sub) - 1) = sub

\* str.strip()
Strip(s) ==
    IF \A i \in 1..Len(s) : IsSpace(Char(s, i))
    THEN ""
    ELSE LET b == CHOOSE j \in 1..Len(s) :
                     /\ ~IsSpace(Char(s, j))
                     /\ \A k \in 1..(j - 1) : IsSpace(Char(s, k))
             e == CHOOSE j \in 1..Len(s) :
                     /\ ~IsSpace(Char(s, j))
                     /\ \A k \in (j + 1)..Len(s) : IsSpace(Char(s, k))
         IN  SubSeq(s, b, e)

\* zfill left out: an octet is kept as it was written
zfillNone(p) == p

\* str.zfill(2): left-pad with "0" to width 2, after a leading sign
zfill2(p) ==
    IF Len(p) >= 2 THEN p
    ELSE IF p = "" THEN "00"
    ELSE IF p \in {"+", "-"} THEN p \o "0"
    ELSE "0" \o p

RECURSIVE Join(_, _)
\* sep.join(parts)
Join(parts, sep) ==
    IF Len(parts) = 0 THEN ""
    ELSE IF Len(parts) = 1 THEN parts[1]
    ELSE parts[1] \o sep \o Join(Tail(parts), sep)

\* ------------------------------------------------------------------------
\* normalize_mac
\* ------------------------------------------------------------------------

normalize_mac(text) ==
    IF ~Truthy(text) THEN None
    ELSE LET m     == Lower(ReplaceChar(text, "-", ":"))
             split == SplitOn(m, ":")
             parts == [i \in 1..Len(split) |-> zfill2(split[i])]
         IN  Join(parts, ":")

\* ------------------------------------------------------------------------
\* Outcome of one external call: subprocess.check_output or scapy's srp.
\* raises: the call raised an Exception (non-zero exit, missing binary, ...)
\* ------------------------------------------------------------------------

Raised == [raises |-> TRUE, out |-> ""]

Output(text) == [raises |-> FALSE, out |-> text]

\* first element of a sequence of tokens with exactly five ":" (None if none)
FirstMacShaped(toks) ==
    IF \E i \in 1..Len(toks) : Count(toks[i], ":") = 5
    THEN LET i == CHOOSE j \in 1..Len(toks) :
                     /\ Count(toks[j], ":") = 5
                     /\ \A k \in 1..(j - 1) : Count(toks[k], ":") # 5
         IN  normalize_mac(toks[i])
    ELSE None

\* the test of line 50 left out: any line that contains ip is used
WindowsLineContains(line, ip) ==
    /\ Contains(line, ip)
    /\ Len(SplitWs(line)) >= 2

\* the Windows branch: a line of `arp -a` is used when it contains ip, has at
\* least three tokens and its first token is ip
WindowsLineMatches(line, ip) ==
    /\ Contains(line, ip)
    /\ Len(SplitWs(line)) >= 3
    /\ SplitWs(line)[1] = ip

get_mac_from_arp_table_windows(ip, arp_a) ==
    IF arp_a.raises THEN None
    ELSE LET lines == SplitLines(arp_a.out)
         IN  IF \E i \in 1..Len(lines) : WindowsLineMatches(lines[i], ip)
             THEN LET i == CHOOSE j \in 1..Len(lines) :
                              /\ WindowsLineMatches(lines[j], ip)
                              /\ \A k \in 1..(j - 1) : ~WindowsLineMatches(lines[k], ip)
                  IN  normalize_mac(SplitWs(lines[i])[2])
             ELSE None

\* the Linux/Darwin branch: `ip neigh show`, then `arp -n`
get_mac_from_arp_table_unix(ip_neigh, arp_n) ==
    LET fromNeigh == IF ip_neigh.raises THEN None
                     ELSE FirstMacShaped(SplitWs(ip_neigh.out))
        cleaned   == ReplaceChar(ReplaceChar(ReplaceChar(arp_n.out,
                         "(", " "), ")", " "), "@", " ")
        fromArp   == IF arp_n.raises THEN None
                     ELSE FirstMacShaped(SplitWs(cleaned))
    IN  IF ~ip_neigh.raises /\ \E i \in 1..Len(SplitWs(ip_neigh.out)) :
                                   Count(SplitWs(ip_neigh.out)[i], ":") = 5
        THEN fromNeigh
        ELSE fromArp

\* env: the outcome of each OS command this call would run
get_mac_from_arp_table(sys, ip, env) ==
    IF sys = "windows" THEN get_mac_from_arp_table_windows(ip, env.arp_a)
    ELSE IF sys \in {"linux", "darwin"}
         THEN get_mac_from_arp_table_unix(env.ip_neigh, env.arp_n)
    ELSE None

\* what a call gives when an exception leaves the function
Uncaught == "<Exception>"

\* lines 82-83 dropped: an exception of srp leaves get_mac_scapy
get_mac_scapy_uncaught(scapy_available, srp) ==
    IF ~scapy_available THEN None
    ELSE IF srp.raises THEN Uncaught
    ELSE IF Len(srp.ans) > 0 THEN normalize_mac(srp.ans[1])
    ELSE None

\* srp: [raises, ans] where ans is the sequence of the replies' Ether.src
get_mac_scapy(scapy_available, srp) ==
    IF ~scapy_available THEN None
    ELSE IF srp.raises THEN None
    ELSE IF Len(srp.ans) > 0 THEN normalize_mac(srp.ans[1])
    ELSE None

StartsWith(s, prefix) ==
    Len(s) >= Len(prefix) /\ SubSeq(s, 1, Len(prefix)) = prefix

\* cmd: the outcome of the platform's routing-table command
detect_default_gateway(sys, cmd) ==
    IF sys \in {"windows", "linux"}
    THEN IF cmd.raises THEN None
         ELSE IF Strip(cmd.out) = "" THEN None ELSE Strip(cmd.out)
    ELSE IF sys = "darwin"
    THEN IF cmd.raises THEN None
         ELSE LET lines == SplitLines(cmd.out)
                  hit(l) == StartsWith(Strip(l), "gateway:")
              IN  IF \E i \in 1..Len(lines) : hit(lines[i])
                  THEN LET i == CHOOSE j \in 1..Len(lines) :
                                   /\ hit(lines[j])
                                   /\ \A k \in 1..(j - 1) : ~hit(lines[k])
                       IN  \* line.split()[1] raises IndexError on a lone token
                           IF Len(SplitWs(lines[i])) < 2 THEN None
                           ELSE Strip(SplitWs(lines[i])[2])
                  ELSE None
    ELSE None

\* ------------------------------------------------------------------------
\* The environment of a run: what the command line, the network and the OS
\* commands can answer.
\* ------------------------------------------------------------------------

\* number of iterations of the polling loop that are explored
MaxCycles == 3

Systems == {"windows", "linux", "darwin", "freebsd"}

GatewayArgs == {None, "192.168.1.1"}

ExpectArgs == {None, "AA-BB-CC-DD-EE-FF", "11:22:33:44:55:66"}

IntervalArgs == {-1, 0, 5}

Args ==
    [gateway : GatewayArgs, interval : IntervalArgs, expect : ExpectArgs,
     once : BOOLEAN, auto_detect : BOOLEAN]

\* what srp can do on one call
SrpOutcomes ==
    { [raises |-> TRUE, ans |-> <<>>],
      [raises |-> FALSE, ans |-> <<>>],
      [raises |-> FALSE, ans |-> <<"aa:bb:cc:dd:ee:ff">>],
      [raises |-> FALSE, ans |-> <<"11:22:33:44:55:66", "aa:bb:cc:dd:ee:ff">>] }

\* what `arp -a` can print when ip is looked up (Windows)
ArpAOutcomes(ip) ==
    { Raised,
      Output(""),
      Output("No ARP Entries Found.\n"),
      Output("Interface: 192.168.1.7 --- 0x4\n  " \o ip \o "0   11-22-33-44-55-66   dynamic\n  "
             \o ip \o "           AA-BB-CC-DD-EE-FF     dynamic\n"),
      Output("  " \o ip \o "   11-22-33-44-55-66   dynamic\n") }

\* what `ip neigh show <ip>` can print
IpNeighOutcomes(ip) ==
    { Raised,
      Output(""),
      Output(ip \o " dev wlan0  FAILED\n"),
      Output(ip \o " dev wlan0 lladdr aa:bb:cc:dd:ee:ff REACHABLE\n") }

\* what `arp -n <ip>` can print
ArpNOutcomes(ip) ==
    { Raised,
      Output(ip \o " (" \o ip \o ") -- no entry\n"),
      Output("? (" \o ip \o ") at 11:22:33:44:55:66 [ether] on wlan0\n"),
      Output("? (" \o ip \o ") at AA:BB:CC:DD:EE:FF [ether] on en0\n") }

ArpEnvs(sys, ip) ==
    IF sys = "windows"
    THEN [arp_a : ArpAOutcomes(ip), ip_neigh : {Raised}, arp_n : {Raised}]
    ELSE IF sys \in {"linux", "darwin"}
    THEN [arp_a : {Raised}, ip_neigh : IpNeighOutcomes(ip), arp_n : ArpNOutcomes(ip)]
    ELSE [arp_a : {Raised}, ip_neigh : {Raised}, arp_n : {Raised}]

\* what the routing-table command of the platform can print
RouteOutcomes(sys) ==
    IF sys = "darwin"
    THEN { Raised,
           Output("   route to: default\n    gateway: 192.168.1.1\n  interface: en0\n"),
           Output("   route to: default\n    gateway: 192.168.1.254\n"),
           Output("    gateway:\n") }
    ELSE { Raised, Output("\n"), Output("192.168.1.1\n"), Output("192.168.1.254\n") }

GatewayIps == {"192.168.1.1", "192.168.1.254"}

\* srp is not called when scapy is missing
NotRun == [raises |-> FALSE, ans |-> <<>>]

\* The answers each function can give in this environment, as tuples of the
\* arguments, what the environment did and the answer: get_mac_scapy per
\* SCAPY_AVAILABLE, get_mac_from_arp_table per platform and ip,
\* detect_default_gateway per platform.
ScapyAnswers ==
    UNION { {<<avail, srp, get_mac_scapy(avail, srp)>> :
                srp \in IF avail THEN SrpOutcomes ELSE {NotRun}} :
            avail \in BOOLEAN }

ArpTableAnswers ==
    UNION { {<<sys, ip, env, get_mac_from_arp_table(sys, ip, env)>> :
                env \in ArpEnvs(sys, ip)} :
            sys \in Systems, ip \in GatewayIps }

LocatorAnswers ==
    UNION { {<<sys, detect_default_gateway(sys, cmd)>> : cmd \in RouteOutcomes(sys)} :
            sys \in Systems }

\* ------------------------------------------------------------------------
\* State
\* ------------------------------------------------------------------------

VARIABLES
    system,           \* platform.system().lower()
    SCAPY_AVAILABLE,  \* module global set by the import at lines 19-23
    args,             \* the parsed command line
    pc,               \* main's position: "L<line>", or "exit"
    rpc,              \* position inside get_gateway_mac: "idle", "scapy", "arp"
    gateway_ip, expected, baseline, mac, current,   \* main's locals
    events,           \* the lines given to log, in order
    exit_code,        \* the process exit status once pc = "exit", -1 before
    cause,            \* what ended the process
    calls,            \* the ip and the line of every call of get_gateway_mac
    results,          \* the value every finished get_gateway_mac returned
    detected,         \* the result of every call of detect_default_gateway
    rtrace,           \* resolvers run by the current/last get_gateway_mac
    sleeps,           \* number of time.sleep calls
    fn_arg,           \* argument of a function applied on its own (below)
    fn_res            \* the values it returned, in order

vars ==
    <<system, SCAPY_AVAILABLE, args, pc, rpc, gateway_ip, expected, baseline,
      mac, current, events, exit_code, cause, calls, results, detected,
      rtrace, sleeps, fn_arg, fn_res>>

main_vars ==
    <<system, SCAPY_AVAILABLE, args, pc, rpc, gateway_ip, expected, baseline,
      mac, current, events, exit_code, cause, calls, results, detected,
      rtrace, sleeps>>

fn_vars == <<fn_arg, fn_res>>

locals == <<gateway_ip, expected, baseline, mac, current>>

env_vars == <<system, SCAPY_AVAILABLE, args>>

call_vars == <<rpc, calls, results, rtrace>>

Init ==
    /\ system \in Systems
    /\ SCAPY_AVAILABLE \in BOOLEAN
    /\ args \in Args
    /\ pc = "L124"
    /\ rpc = "idle"
    /\ gateway_ip = None /\ expected = None /\ baseline = None
    /\ mac = None /\ current = None
    /\ events = <<>>
    /\ exit_code = -1
    /\ cause = "running"
    /\ calls = <<>>
    /\ results = <<>>
    /\ detected = <<>>
    /\ rtrace = <<>>
    /\ sleeps = 0
    /\ fn_arg = None
    /\ fn_res = <<>>

\* log(msg, logfile): one line to the sink
log(sev, line, text) == Append(events, [sev |-> sev, line |-> line, text |-> text])

\* the process ends with the given status
Exit(code, why) ==
    /\ pc' = "exit"
    /\ exit_code' = code
    /\ cause' = why

\* ------------------------------------------------------------------------
\* main, lines 124-134: the gateway IP and the expected MAC
\* ------------------------------------------------------------------------

\* line 124-125
L124 ==
    /\ pc = "L124"
    /\ gateway_ip' = args.gateway
    /\ pc' = IF ~Truthy(args.gateway) /\ args.auto_detect THEN "L126" ELSE "L130"
    /\ UNCHANGED <<fn_vars, env_vars, call_vars, expected, baseline, mac, current,
                   events, exit_code, cause, detected, sleeps>>

\* lines 126-128
L126 ==
    /\ pc = "L126"
    /\ \E gw \in {a[2] : a \in {t \in LocatorAnswers : t[1] = system}} :
             /\ gateway_ip' = gw
             /\ detected' = Append(detected, gw)
             /\ events' = IF Truthy(gw) THEN log("info", 128, <<gw>>) ELSE events
    /\ pc' = "L130"
    /\ UNCHANGED <<fn_vars, env_vars, call_vars, expected, baseline, mac, current,
                   exit_code, cause, sleeps>>

\* line 130 without the test of gateway_ip
NoGatewayIgnored(ip) == FALSE

\* line 130
NoGateway(ip) == ~Truthy(ip)

\* lines 130-131: parser.error prints the usage and exits with status 2
L130 ==
    /\ pc = "L130"
    /\ IF NoGateway(gateway_ip)
       THEN Exit(2, "parser.error")
       ELSE pc' = "L133" /\ UNCHANGED <<exit_code, cause>>
    /\ UNCHANGED <<fn_vars, env_vars, call_vars, locals, events, detected, sleeps>>

\* lines 133-134
L133 ==
    /\ pc = "L133"
    /\ expected' = IF Truthy(args.expect) THEN normalize_mac(args.expect) ELSE None
    /\ baseline' = None
    /\ pc' = "L137"
    /\ UNCHANGED <<fn_vars, env_vars, call_vars, gateway_ip, mac, current, events,
                   exit_code, cause, detected, sleeps>>

\* ------------------------------------------------------------------------
\* get_gateway_mac, lines 87-92, called at lines 137, 144 and 162
\* ------------------------------------------------------------------------

CallSites == {"L137", "L144", "L162"}

\* lines 138-144 as a loop: the value of the retry is tested at line 138 again
ReturnToRetry(r) ==
    /\ rpc' = "idle"
    /\ results' = Append(results, r)
    /\ IF pc = "L162"
       THEN /\ current' = r
            /\ mac' = mac
            /\ pc' = "L163"
       ELSE /\ mac' = r
            /\ current' = current
            /\ pc' = "L138"

\* the caller's assignment of the returned value and its next line
Return(r) ==
    /\ rpc' = "idle"
    /\ results' = Append(results, r)
    /\ IF pc = "L162"
       THEN /\ current' = r
            /\ mac' = mac
            /\ pc' = "L163"
       ELSE /\ mac' = r
            /\ current' = current
            /\ pc' = IF pc = "L137" THEN "L138" ELSE "L146"

\* an exception leaves get_gateway_mac: main has no handler and _cli catches
\* KeyboardInterrupt only, so the process ends with a traceback and status 1
Propagate ==
    /\ Exit(1, "Exception")
    /\ rpc' = "idle"
    /\ UNCHANGED <<mac, current, results>>

\* line 90 dropped: the ARP cache is read whatever the active resolver said
ScapyAnswerIgnored(m) == FALSE

\* line 90: the active resolver's answer is returned when it is truthy
ScapyAnswerReturned(m) == Truthy(m)

\* the call: control enters get_gateway_mac(gateway_ip)
get_gateway_mac_call ==
    /\ pc \in CallSites
    /\ rpc = "idle"
    /\ rpc' = "scapy"
    /\ rtrace' = <<>>
    /\ calls' = Append(calls, [ip |-> gateway_ip, site |-> pc])
    /\ UNCHANGED <<fn_vars, env_vars, pc, locals, events, exit_code, cause, detected,
                   results, sleeps>>

\* lines 89-91: the active query; a truthy answer is returned at once
get_gateway_mac_scapy ==
    /\ pc \in CallSites
    /\ rpc = "scapy"
    /\ \E t \in {a \in ScapyAnswers : a[1] = SCAPY_AVAILABLE} :
         LET m == t[3]
         IN  /\ rtrace' = Append(rtrace, <<"get_mac_scapy", m, t[2]>>)
             /\ IF m = Uncaught
                THEN Propagate
                ELSE IF ScapyAnswerReturned(m)
                THEN Return(m) /\ UNCHANGED <<exit_code, cause>>
                ELSE /\ rpc' = "arp"
                     /\ UNCHANGED <<pc, mac, current, results, exit_code, cause>>
    /\ UNCHANGED <<fn_vars, env_vars, gateway_ip, expected, baseline, events,
                   calls, detected, sleeps>>

\* line 92: the ARP cache; its answer is returned as it is
get_gateway_mac_arp ==
    /\ pc \in CallSites
    /\ rpc = "arp"
    /\ \E t \in {a \in ArpTableAnswers : a[1] = system /\ a[2] = gateway_ip} :
         LET m == t[4]
         IN  /\ rtrace' = Append(rtrace, <<"get_mac_from_arp_table", m, t[3]>>)
             /\ IF m = Uncaught
                THEN Propagate
                ELSE Return(m) /\ UNCHANGED <<exit_code, cause>>
    /\ UNCHANGED <<fn_vars, env_vars, gateway_ip, expected, baseline, events,
                   calls, detected, sleeps>>

\* ------------------------------------------------------------------------
\* main, lines 138-158: the baseline
\* ------------------------------------------------------------------------

\* line 138: the locator is asked when the first resolution gave nothing
LocatorConsulted(m, auto_detect) == ~Truthy(m) /\ auto_detect

\* line 138
L138 ==
    /\ pc = "L138"
    /\ pc' = IF LocatorConsulted(mac, args.auto_detect) THEN "L140" ELSE "L146"
    /\ UNCHANGED <<fn_vars, env_vars, call_vars, locals, events, exit_code, cause,
                   detected, sleeps>>

\* line 141 without the comparison with gateway_ip
RetryOnAnyAnswer(gw2, ip) == Truthy(gw2)

\* line 141: the retry is taken when the locator's answer is an IP other than
\* gateway_ip
RetryTaken(gw2, ip) == Truthy(gw2) /\ gw2 # ip

\* lines 140-143
L140 ==
    /\ pc = "L140"
    /\ \E gw2 \in {a[2] : a \in {t \in LocatorAnswers : t[1] = system}} :
             /\ detected' = Append(detected, gw2)
             /\ IF RetryTaken(gw2, gateway_ip)
                THEN /\ events' = log("info", 142, <<gw2>>)
                     /\ gateway_ip' = gw2
                     /\ pc' = "L144"
                ELSE /\ UNCHANGED <<events, gateway_ip>>
                     /\ pc' = "L146"
    /\ UNCHANGED <<fn_vars, env_vars, call_vars, expected, baseline, mac, current,
                   exit_code, cause, sleeps>>

\* line 146 without the test of mac
StillUnresolvedIgnored(m) == FALSE

\* line 146
StillUnresolved(m) == ~Truthy(m)

\* lines 146-148
L146 ==
    /\ pc = "L146"
    /\ IF StillUnresolved(mac)
       THEN /\ events' = log("error", 147, <<gateway_ip>>)
            /\ Exit(1, "sys.exit")
       ELSE /\ pc' = "L150"
            /\ UNCHANGED <<events, exit_code, cause>>
    /\ UNCHANGED <<fn_vars, env_vars, call_vars, locals, detected, sleeps>>

\* lines 150-151
L150 ==
    /\ pc = "L150"
    /\ baseline' = mac
    /\ events' = log("info", 151, <<gateway_ip, mac>>)
    /\ pc' = "L154"
    /\ UNCHANGED <<fn_vars, env_vars, call_vars, gateway_ip, expected, mac, current,
                   exit_code, cause, detected, sleeps>>

\* line 154 without the comparison with the baseline
InitialAlertNever(base, exp) == FALSE

\* line 154
InitialAlert(base, exp) == Truthy(exp) /\ base # exp

\* lines 154-155
L154 ==
    /\ pc = "L154"
    /\ events' = IF InitialAlert(baseline, expected)
                 THEN log("ALERT", 155, <<baseline, expected>>)
                 ELSE events
    /\ pc' = "L157"
    /\ UNCHANGED <<fn_vars, env_vars, call_vars, locals, exit_code, cause, detected,
                   sleeps>>

\* line 157 without the test of --once
SingleShotIgnored(once) == FALSE

\* line 157
SingleShot(once) == once

\* lines 157-158
L157 ==
    /\ pc = "L157"
    /\ IF SingleShot(args.once)
       THEN Exit(0, "sys.exit")
       ELSE pc' = "L161" /\ UNCHANGED <<exit_code, cause>>
    /\ UNCHANGED <<fn_vars, env_vars, call_vars, locals, events, detected, sleeps>>

\* ------------------------------------------------------------------------
\* main, lines 160-174: the polling loop
\* ------------------------------------------------------------------------

\* line 161: time.sleep raises ValueError for a negative length, which no
\* handler catches: the interpreter prints the traceback and exits with 1
L161 ==
    /\ pc = "L161"
    /\ sleeps < MaxCycles
    /\ sleeps' = sleeps + 1
    /\ IF args.interval < 0
       THEN Exit(1, "ValueError")
       ELSE pc' = "L162" /\ UNCHANGED <<exit_code, cause>>
    /\ UNCHANGED <<fn_vars, env_vars, call_vars, locals, events, detected>>

\* line 174 taken out of its comment: the new MAC becomes the baseline
BaselineAcceptsDrift(old, cur) == IF Truthy(cur) THEN cur ELSE old

\* the baseline kept by one pass through lines 163-174
BaselineAfterCycle(old, cur) == old

\* the comparison of line 171 made whether or not an expected MAC is set
PollEventsBaselineOnly(cur, exp, base, ip) ==
    IF ~Truthy(cur)
    THEN <<[sev |-> "Warning", line |-> 164, text |-> <<ip>>]>>
    ELSE IF cur # base
         THEN <<[sev |-> "ALERT", line |-> 172, text |-> <<base, cur>>]>>
         ELSE <<>>

\* the comparison of line 168 made whether or not an expected MAC is set
PollEventsExpectedOnly(cur, exp, base, ip) ==
    IF ~Truthy(cur)
    THEN <<[sev |-> "Warning", line |-> 164, text |-> <<ip>>]>>
    ELSE IF cur # exp
         THEN <<[sev |-> "ALERT", line |-> 169, text |-> <<cur, exp>>]>>
         ELSE <<>>

\* the `continue` of line 165 left out: a miss falls through to the comparison
PollEventsMissFallsThrough(cur, exp, base, ip) ==
    (IF ~Truthy(cur)
     THEN <<[sev |-> "Warning", line |-> 164, text |-> <<ip>>]>>
     ELSE <<>>)
    \o (IF Truthy(exp)
        THEN IF cur # exp
             THEN <<[sev |-> "ALERT", line |-> 169, text |-> <<cur, exp>>]>>
             ELSE <<>>
        ELSE IF cur # base
             THEN <<[sev |-> "ALERT", line |-> 172, text |-> <<base, cur>>]>>
             ELSE <<>>)

\* the alert latched: no alert is logged when the last line logged is an alert
PollEventsLatched(cur, exp, base, ip) ==
    IF ~Truthy(cur)
    THEN <<[sev |-> "Warning", line |-> 164, text |-> <<ip>>]>>
    ELSE IF Len(events) > 0 /\ events[Len(events)].sev = "ALERT"
    THEN <<>>
    ELSE IF Truthy(exp)
    THEN IF cur # exp
         THEN <<[sev |-> "ALERT", line |-> 169, text |-> <<cur, exp>>]>>
         ELSE <<>>
    ELSE IF cur # base
         THEN <<[sev |-> "ALERT", line |-> 172, text |-> <<base, cur>>]>>
         ELSE <<>>

\* lines 163-172: the lines one pass of the loop body gives to log
PollEvents(cur, exp, base, ip) ==
    IF ~Truthy(cur)
    THEN <<[sev |-> "Warning", line |-> 164, text |-> <<ip>>]>>
    ELSE IF Truthy(exp)
    THEN IF cur # exp
         THEN <<[sev |-> "ALERT", line |-> 169, text |-> <<cur, exp>>]>>
         ELSE <<>>
    ELSE IF cur # base
         THEN <<[sev |-> "ALERT", line |-> 172, text |-> <<base, cur>>]>>
         ELSE <<>>

\* lines 163-174: the rest of the loop body, back to the top of the loop
L163 ==
    /\ pc = "L163"
    /\ events' = events \o PollEvents(current, expected, baseline, gateway_ip)
    /\ baseline' = BaselineAfterCycle(baseline, current)
    /\ pc' = "L161"
    /\ UNCHANGED <<fn_vars, env_vars, call_vars, gateway_ip, expected, mac, current,
                   exit_code, cause, detected, sleeps>>

\* ------------------------------------------------------------------------
\* _cli, lines 176-180: KeyboardInterrupt ends main from wherever it is;
\* _cli prints "Exiting." and returns, so the process ends with status 0
\* ------------------------------------------------------------------------

\* lines 179-180 dropped: the interrupt leaves _cli, traceback and status 1
KeyboardInterruptUncaught ==
    /\ pc # "exit"
    /\ Exit(1, "KeyboardInterrupt")
    /\ UNCHANGED <<fn_vars, env_vars, call_vars, locals, events, detected, sleeps>>

KeyboardInterrupt ==
    /\ pc # "exit"
    /\ Exit(0, "KeyboardInterrupt")
    /\ UNCHANGED <<fn_vars, env_vars, call_vars, locals, events, detected, sleeps>>

Next ==
    \/ L124 \/ L126 \/ L130 \/ L133
    \/ get_gateway_mac_call \/ get_gateway_mac_scapy \/ get_gateway_mac_arp
    \/ L138 \/ L140 \/ L146 \/ L150 \/ L154 \/ L157
    \/ L161 \/ L163
    \/ KeyboardInterrupt

Spec == Init /\ [][Next]_vars

\* ------------------------------------------------------------------------
\* Properties
\* ------------------------------------------------------------------------

LoopPcs == {"L161", "L162", "L163"}

Last(seq) == seq[Len(seq)]

IsAlert(e) == e.sev = "ALERT"

IsWarning(e) == e.sev = "Warning"

NoAlert(evs) == \A i \in 1..Len(evs) : ~IsAlert(evs[i])

\* the step is one of main's own (not the operator's interrupt)
MainStep == cause' # "KeyboardInterrupt"

\* the step is one pass through lines 163-174
CycleStep == pc = "L163" /\ MainStep

\* C1: the baseline is assigned once, at line 150, and no later step changes
\* it: in every state the baseline is the MAC of the "Initial gateway MAC"
\* line, also right after a cycle that raised an alert.
C1_BaselineSetOnce ==
    [][ /\ baseline # None => baseline' = baseline
        /\ baseline' # baseline => pc = "L150" /\ baseline' = mac
        /\ \A i \in 1..Len(events') :
             events'[i].line = 151 => baseline' = events'[i].text[2]
      ]_vars

\* a later cycle has run after a cycle that raised the baseline alert
C1_Witness ==
    /\ pc = "L161"
    /\ sleeps = 2
    /\ Len(events) >= 2
    /\ events[Len(events) - 1].line = 172
    /\ Last(events).line = 164
    /\ baseline = events[Len(events) - 1].text[1]
    /\ baseline # events[Len(events) - 1].text[2]

\* C2: with no expected MAC, a cycle that resolved a MAC logs exactly one
\* alert, citing the baseline and the new MAC, when the MAC differs from the
\* baseline, and logs nothing when it equals the baseline.
C2_BaselineComparison ==
    [][ (CycleStep /\ ~Truthy(args.expect) /\ Truthy(current)) =>
          IF current # baseline
          THEN /\ Len(events') = Len(events) + 1
               /\ SubSeq(events', 1, Len(events)) = events
               /\ IsAlert(Last(events'))
               /\ Last(events').text = <<baseline, current>>
          ELSE events' = events
      ]_vars

\* both cases have happened: an alert for a new MAC, then a silent cycle
C2_Witness ==
    /\ pc = "L161"
    /\ sleeps = 2
    /\ ~Truthy(args.expect)
    /\ current = baseline
    /\ Len(events) = 2
    /\ Last(events).line = 172
    /\ Last(events).text[2] # baseline

\* C3: with an expected MAC, a cycle that resolved a MAC is compared with the
\* expected MAC alone: one alert when it differs from the expected MAC (also
\* when it equals the baseline), nothing when it equals the expected MAC (also
\* when it differs from the baseline).
C3_ExpectedComparison ==
    [][ (CycleStep /\ Truthy(args.expect) /\ Truthy(current)) =>
          IF current # normalize_mac(args.expect)
          THEN /\ Len(events') = Len(events) + 1
               /\ SubSeq(events', 1, Len(events)) = events
               /\ IsAlert(Last(events'))
               /\ Last(events').text = <<current, normalize_mac(args.expect)>>
          ELSE events' = events
      ]_vars

\* a cycle that saw the baseline alerted, and the next one, which saw the
\* expected MAC and not the baseline, logged nothing
C3_Witness ==
    /\ pc = "L161"
    /\ sleeps = 2
    /\ Truthy(args.expect)
    /\ current = expected
    /\ baseline # expected
    /\ Len(events) = 3
    /\ Last(events).line = 169
    /\ Last(events).text[1] = baseline

\* C4: when the expected MAC differs from the baseline just recorded, the
\* alert is the line logged right after the "Initial gateway MAC" line, no
\* sleep or poll comes before it, and the run goes on: past line 154 the
\* process never ends with an error status before it has slept.
C4_ImmediateAlert ==
    [][ /\ (pc = "L154" /\ MainStep /\ Truthy(args.expect)
              /\ baseline # normalize_mac(args.expect)) =>
             /\ Last(events).line = 151
             /\ events' = Append(events, [sev |-> "ALERT", line |-> 155,
                              text |-> <<baseline, normalize_mac(args.expect)>>])
             /\ sleeps' = 0
             /\ Len(calls') = Len(results') /\ Len(calls') \in {1, 2}
             /\ pc' = "L157"
        /\ (pc = "L157" /\ MainStep) =>
             IF args.once THEN pc' = "exit" /\ exit_code' = 0 ELSE pc' = "L161"
      ]_vars

\* the alert of line 155 has been logged and the loop is running
C4_Witness ==
    /\ pc = "L162"
    /\ sleeps = 1
    /\ Len(events) = 2
    /\ Last(events).line = 155
    /\ Last(events).text = <<baseline, expected>>

\* C5: a cycle whose resolution gave nothing logs exactly one warning and no
\* alert, changes neither the baseline nor the expected MAC nor the gateway
\* IP, and returns to the top of the loop, however many misses came before.
C5_TransientMiss ==
    [][ (CycleStep /\ ~Truthy(current)) =>
          /\ Len(events') = Len(events) + 1
          /\ SubSeq(events', 1, Len(events)) = events
          /\ IsWarning(Last(events'))
          /\ baseline' = baseline
          /\ expected' = expected
          /\ gateway_ip' = gateway_ip
          /\ pc' = "L161"
      ]_vars

\* two misses in a row, each logged as a warning, and the loop still runs
C5_Witness ==
    /\ pc = "L161"
    /\ sleeps = 2
    /\ Len(events) >= 2
    /\ IsWarning(Last(events))
    /\ IsWarning(events[Len(events) - 1])
    /\ NoAlert(events)

\* C6: every call of get_gateway_mac runs get_mac_scapy first; a MAC from it
\* is the result and get_mac_from_arp_table is not run; when it gives nothing
\* (also when scapy is missing) get_mac_from_arp_table runs once and its
\* answer is the result.
C6_FallbackOrder ==
    /\ Len(rtrace) <= 2
    /\ Len(rtrace) >= 1 => rtrace[1][1] = "get_mac_scapy"
    /\ Len(rtrace) = 2 =>
         /\ rtrace[2][1] = "get_mac_from_arp_table"
         /\ ~Truthy(rtrace[1][2])
    /\ rpc = "arp" => Len(rtrace) = 1 /\ ~Truthy(rtrace[1][2])
    /\ (rpc = "idle" /\ Len(results) > 0) =>
         /\ Last(results) = Last(rtrace)[2]
         /\ Len(rtrace) = 1 => Truthy(rtrace[1][2])
         /\ ~SCAPY_AVAILABLE => Len(rtrace) = 2

\* a call fell back to the ARP cache, which answered
C6_Witness ==
    /\ rpc = "idle"
    /\ Len(rtrace) = 2
    /\ SCAPY_AVAILABLE
    /\ Truthy(Last(results))

\* main ended by itself (sys.exit, parser.error or an uncaught exception)
EndedByMain == pc = "exit" /\ cause # "KeyboardInterrupt"

\* the locator's answers: the one of line 126 comes first when --gateway is
\* missing and --auto-detect is set, the one of line 140 comes next
RetryIdx == IF ~Truthy(args.gateway) /\ args.auto_detect THEN 2 ELSE 1

\* line 140 has run
RetryAsked == Len(detected) = RetryIdx

\* C7 as stated: a --once run that ends with sys.exit(0) has made exactly one
\* resolution and has not slept.
C7_Original ==
    (args.once /\ pc = "exit" /\ cause = "sys.exit" /\ exit_code = 0) =>
        Len(calls) = 1 /\ sleeps = 0

\* C7 as amended: a --once run never sleeps and never enters the loop; it
\* makes at most two resolutions, the second one only as the auto-detect
\* retry after an empty first one, against another IP; when main ends the run
\* the status is 0 exactly when a baseline was recorded.
C7_SingleShot ==
    args.once =>
        /\ sleeps = 0
        /\ pc \notin LoopPcs
        /\ Len(calls) <= 2
        /\ Len(calls) = 2 =>
             /\ args.auto_detect
             /\ ~Truthy(results[1])
             /\ calls[2].ip = Last(detected)
             /\ calls[2].ip # calls[1].ip
        /\ EndedByMain => (exit_code = 0 <=> Truthy(baseline))
        /\ (EndedByMain /\ exit_code = 0) =>
             Len(results) = Len(calls) /\ Len(calls) >= 1 /\ baseline = Last(results)

\* a --once run that ended with status 0 after the retry
C7_Witness ==
    /\ args.once
    /\ pc = "exit"
    /\ cause = "sys.exit"
    /\ exit_code = 0
    /\ Len(calls) = 2
    /\ sleeps = 0

\* the retry of line 144 has been started
Retried == \E i \in 1..Len(calls) : calls[i].site = "L144"

\* C8 as stated: whenever the locator, asked at line 140, returns an IP, the
\* resolution is retried.
C8_Original ==
    (RetryAsked /\ Truthy(detected[RetryIdx]) /\ ~(pc = "exit" /\ ~EndedByMain)) =>
        (pc = "L144" \/ Retried)

\* C8 as amended: the locator is asked at line 140 exactly when the first
\* resolution gave nothing and --auto-detect is set; the retry is made exactly
\* when its answer is an IP other than the one just tried, once, against that
\* answer; every other resolution after the first is made by the loop, with a
\* baseline recorded.
C8_RetryOnce ==
    /\ \A i \in 1..Len(calls) :
         /\ calls[i].site = "L137" <=> i = 1
         /\ calls[i].site = "L144" =>
              /\ i = 2
              /\ RetryAsked
              /\ Truthy(calls[i].ip)
              /\ calls[i].ip = detected[RetryIdx]
              /\ calls[i].ip # calls[1].ip
         /\ calls[i].site = "L162" => Truthy(baseline)
    /\ RetryAsked => args.auto_detect /\ Len(results) >= 1 /\ ~Truthy(results[1])
    /\ (RetryAsked /\ ~(pc = "exit" /\ ~EndedByMain)) =>
         ((pc = "L144" \/ Retried)
            <=> (Truthy(detected[RetryIdx]) /\ detected[RetryIdx] # calls[1].ip))
    /\ (pc \in {"L146", "L150", "L154", "L157"} \cup LoopPcs
          /\ args.auto_detect /\ ~Truthy(results[1])) => RetryAsked

\* the locator answered with the IP already tried: no retry was made
C8_Witness ==
    /\ pc = "L146"
    /\ RetryAsked
    /\ Truthy(detected[RetryIdx])
    /\ detected[RetryIdx] = calls[1].ip
    /\ Len(calls) = 1

C10_FatalWithoutMac ==
    [][ /\ (pc = "L146" /\ ~Truthy(mac) /\ MainStep) =>
             /\ pc' = "exit"
             /\ exit_code' = 1
             /\ baseline' = None
             /\ NoAlert(events')
             /\ sleeps' = 0
        /\ pc' \in LoopPcs => Truthy(baseline')
      ]_vars

\* a --once run whose retry also gave nothing ended with status 1
C10_Witness ==
    /\ pc = "exit"
    /\ exit_code = 1
    /\ cause = "sys.exit"
    /\ args.once
    /\ Len(calls) = 2
    /\ baseline = None

\* ------------------------------------------------------------------------
\* normalize_mac applied on its own
\* ------------------------------------------------------------------------

\* main is not running while a function is applied on its own
MainIdle ==
    /\ system = "linux"
    /\ SCAPY_AVAILABLE = FALSE
    /\ args = [gateway |-> None, interval |-> 5, expect |-> None,
               once |-> FALSE, auto_detect |-> FALSE]
    /\ pc = "idle"
    /\ rpc = "idle"
    /\ gateway_ip = None /\ expected = None /\ baseline = None
    /\ mac = None /\ current = None
    /\ events = <<>>
    /\ exit_code = -1
    /\ cause = "running"
    /\ calls = <<>>
    /\ results = <<>>
    /\ detected = <<>>
    /\ rtrace = <<>>
    /\ sleeps = 0

\* the first two octets as written, and the separators
OctetTexts == {"1", "0a", "FF", "", "g1", "123"}

Separators == {":", "-"}

\* the octets after the first two, as written
TailOctets == <<"0d", "1", "D2", "03", "4">>

RECURSIVE MoreOctets(_, _)
\* the first n of the further octets, each after the separator sep
MoreOctets(sep, n) ==
    IF n = 0 THEN ""
    ELSE MoreOctets(sep, n - 1) \o sep \o TailOctets[n]

\* a text of n octets
MacText(o1, o2, sep1, sep2, n) == o1 \o sep1 \o o2 \o MoreOctets(sep2, n - 2)

\* the texts normalize_mac is applied to: with five, six and seven octets,
\* valid and invalid ones, both separators, and the falsy values
NormInputs ==
    { MacText(o1, o2, s1, s2, n) :
        o1 \in OctetTexts, o2 \in OctetTexts, s1 \in Separators,
        s2 \in Separators, n \in {5, 6, 7} }
    \cup {"", None, "zz", "aa:bb:cc:dd:ee:ff", "1C-1B-0D-01-02-03"}

\* valid texts to compare an input with
NormPeers == {"01-0A-0D-01-d2-3", "ff:1:d:1:D2:03", "1c:1b:0d:1:2:3"}

NormInit ==
    /\ MainIdle
    /\ fn_arg \in NormInputs \X NormPeers
    /\ fn_res = <<>>

\* normalize_mac of the input and of the peer
Normalize ==
    /\ fn_res = <<>>
    /\ fn_res' = <<normalize_mac(fn_arg[1]), normalize_mac(fn_arg[2])>>
    /\ UNCHANGED <<main_vars, fn_arg>>

\* normalize_mac of what normalize_mac returned for the input
NormalizeAgain ==
    /\ Len(fn_res) = 2
    /\ fn_res' = Append(fn_res, normalize_mac(fn_res[1]))
    /\ UNCHANGED <<main_vars, fn_arg>>

NormNext == Normalize \/ NormalizeAgain

SpecNormalize == NormInit /\ [][NormNext]_vars

HexLower == "0123456789abcdef"

HexUpper == "0123456789ABCDEF"

IsHexDigit(c) ==
    \E i \in 1..Len(HexLower) : Char(HexLower, i) = c \/ Char(HexUpper, i) = c

HexValue(c) ==
    (CHOOSE i \in 1..Len(HexLower) : Char(HexLower, i) = c \/ Char(HexUpper, i) = c) - 1

\* the octets of a text as written, either separator
OctetsOf(t) == SplitOn(ReplaceChar(t, "-", ":"), ":")

\* six octets of one or two hexadecimal digits
ValidMacText(t) ==
    /\ t # None
    /\ Len(OctetsOf(t)) = 6
    /\ \A i \in 1..6 :
         /\ Len(OctetsOf(t)[i]) \in {1, 2}
         /\ \A k \in 1..Len(OctetsOf(t)[i]) : IsHexDigit(Char(OctetsOf(t)[i], k))

\* the 48-bit value of a valid text, as its six octet values
MacValue(t) ==
    [i \in 1..6 |->
        LET o == OctetsOf(t)[i]
        IN  IF Len(o) = 1 THEN HexValue(o)
            ELSE 16 * HexValue(Char(o, 1)) + HexValue(Char(o, 2))]

\* six octet values in lowercase, colon-separated, two-digit form
Canonical(v) ==
    Join([i \in 1..6 |-> Char(HexLower, (v[i] \div 16) + 1)
                           \o Char(HexLower, (v[i] % 16) + 1)], ":")

\* C11: normalize_mac returns None for every text that is not six octets of
\* one or two hexadecimal digits separated by ":" or "-".
C11_Claim ==
    (Len(fn_res) >= 1 /\ ~ValidMacText(fn_arg[1])) => fn_res[1] = None

\* C12: for a valid text normalize_mac returns the lowercase, colon-separated,
\* two-digit form of its value; two valid texts of the same value give the
\* same result; normalize_mac of the result is the result.
C12_Canonical ==
    (Len(fn_res) >= 2 /\ ValidMacText(fn_arg[1])) =>
        /\ fn_res[1] = Canonical(MacValue(fn_arg[1]))
        /\ MacValue(fn_arg[1]) = MacValue(fn_arg[2]) => fn_res[1] = fn_res[2]
        /\ Len(fn_res) = 3 => fn_res[3] = fn_res[1]

\* two texts of one value written differently, normalized twice
C12_Witness ==
    /\ Len(fn_res) = 3
    /\ ValidMacText(fn_arg[1])
    /\ fn_arg[1] # fn_arg[2]
    /\ MacValue(fn_arg[1]) = MacValue(fn_arg[2])
    /\ fn_res[1] # fn_arg[1]
    /\ fn_res[1] = fn_res[2]

\* a text with no MAC address among its tokens
NoMacIn(text) ==
    \A i \in 1..Len(SplitWs(text)) : ~ValidMacText(SplitWs(text)[i])

\* an OS command that gave an error, was missing, or printed nothing usable
CommandFailed(cmd) == cmd.raises \/ NoMacIn(cmd.out)

\* the ways the capture library gives no reply: it raised, or nobody answered
FailedSrp == {srp \in SrpOutcomes \cup {NotRun} : srp.raises \/ srp.ans = <<>>}

\* the ways every OS command the passive resolver runs fails on a platform
FailedEnvs ==
    UNION { { <<sys, env>> : env \in
                { e \in ArpEnvs(sys, ip) :
                    IF sys = "windows" THEN CommandFailed(e.arp_a)
                    ELSE CommandFailed(e.ip_neigh) /\ CommandFailed(e.arp_n) } } :
            sys \in Systems, ip \in GatewayIps }

\* the resolver of a trace entry failed
ResolverFailed(e) ==
    IF e[1] = "get_mac_scapy" THEN ~SCAPY_AVAILABLE \/ e[3] \in FailedSrp
    ELSE <<system, e[3]>> \in FailedEnvs

\* C13: a resolver whose OS command or capture library fails (error, missing
\* binary, empty or unparsable output, exception, library unavailable)
\* returns None and no exception leaves it; in the loop a resolution that
\* failed in both resolvers is followed by a warning and the next sleep,
\* never by the end of the process.
C13_NoEscape ==
    /\ [](/\ cause # "Exception"
          /\ \A i \in 1..Len(rtrace) :
               /\ rtrace[i][2] # Uncaught
               /\ ResolverFailed(rtrace[i]) => rtrace[i][2] = None
          /\ (pc = "L163" /\ \A i \in 1..Len(rtrace) : ResolverFailed(rtrace[i])) =>
               current = None)
    /\ [][ /\ (pc = "L162" /\ MainStep) => pc' \in {"L162", "L163"}
           /\ (pc = "L163" /\ current = None /\ MainStep) =>
                /\ pc' = "L161"
                /\ Len(events') = Len(events) + 1
                /\ IsWarning(Last(events'))
         ]_vars

\* in the loop the capture library raised and the ARP command failed too
C13_Witness ==
    /\ pc = "L161"
    /\ sleeps = 2
    /\ Len(rtrace) = 2
    /\ rtrace[1][3].raises
    /\ system = "linux"
    /\ rtrace[2][3].ip_neigh.raises
    /\ ~rtrace[2][3].arp_n.raises
    /\ IsWarning(Last(events))

QueriedIp == "192.168.1.1"

\* lines `arp -a` can print: the header, entries of the queried IP with
\* one to four tokens, entries of other IPs (one containing the queried IP
\* as a substring), and an empty line
ArpALines ==
    { "Interface: " \o QueriedIp \o " --- 0x4",
      "  Internet Address      Physical Address      Type",
      "  " \o QueriedIp \o "0          11-22-33-44-55-66     dynamic",
      "  10." \o QueriedIp \o "       22-33-44-55-66-77     dynamic",
      "  " \o QueriedIp \o "           AA-BB-CC-DD-EE-FF     dynamic",
      "  " \o QueriedIp \o "           1c-1b-d-1-2-3     static",
      "  " \o QueriedIp \o "           0a-0b-0c-0d-0e-0f",
      "  " \o QueriedIp \o "   a0-b0-c0-d0-e0-f0   dynamic   stale",
      "  " \o QueriedIp,
      "" }

MaxLines == 3

RECURSIVE Tables(_)
\* the texts of n lines
Tables(n) ==
    IF n = 0 THEN {""}
    ELSE {t \o l \o "\n" : t \in Tables(n - 1), l \in ArpALines}

\* what `arp -a` can do: fail, or print up to MaxLines lines
ArpTableInputs == {Raised} \cup {Output(t) : t \in UNION {Tables(n) : n \in 1..MaxLines}}

ArpTableInit ==
    /\ MainIdle
    /\ fn_arg \in ArpTableInputs
    /\ fn_res = <<>>

\* get_mac_from_arp_table(QueriedIp) on Windows with this outcome of `arp -a`
ArpTableLookup ==
    /\ fn_res = <<>>
    /\ fn_res' = <<get_mac_from_arp_table("windows", QueriedIp,
                      [arp_a |-> fn_arg, ip_neigh |-> Raised, arp_n |-> Raised])>>
    /\ UNCHANGED <<main_vars, fn_arg>>

ArpTableNext == ArpTableLookup

SpecArpTable == ArpTableInit /\ [][ArpTableNext]_vars

\* the lines of a text whose first token is the queried IP and that have at
\* least n tokens
EntriesOf(text, n) ==
    LET lines == SplitLines(text)
    IN  SelectSeq([i \in 1..Len(lines) |-> SplitWs(lines[i])],
                  LAMBDA toks : Len(toks) >= n /\ toks[1] = QueriedIp)

\* the normalized second token of the first such line, None without one
SecondTokenOfFirst(text, n) ==
    IF EntriesOf(text, n) = <<>> THEN None
    ELSE normalize_mac(EntriesOf(text, n)[1][2])

\* C15 as stated: the result is the normalized second token of the first line
\* whose first token is the queried IP and that has a second token, however
\* many tokens follow; None when there is no such line.
C15_Original ==
    (Len(fn_res) = 1 /\ ~fn_arg.raises) =>
        fn_res[1] = SecondTokenOfFirst(fn_arg.out, 2)

\* C15: the result is the normalized second token of the first line whose
\* first token is the queried IP and that has at least three tokens; a line
\* with only two tokens, or one that merely contains the IP, is passed over;
\* None when there is no such line or when `arp -a` fails.
C15_WindowsParse ==
    Len(fn_res) = 1 =>
        fn_res[1] = IF fn_arg.raises THEN None
                    ELSE SecondTokenOfFirst(fn_arg.out, 3)

\* a two-token entry of the queried IP passed over for a later full entry,
\* after an entry of another IP that contains the queried IP
C15_Witness ==
    /\ Len(fn_res) = 1
    /\ fn_arg = Output("  " \o QueriedIp \o "0          11-22-33-44-55-66     dynamic\n"
                       \o "  " \o QueriedIp \o "           0a-0b-0c-0d-0e-0f\n"
                       \o "  " \o QueriedIp \o "           1c-1b-d-1-2-3     static\n")
    /\ fn_res[1] = "1c:1b:0d:01:02:03"

\* C16: a run started with an interval of zero or less makes no resolution,
\* never reaches the sleep of the loop and never ends with an exception of
\* that sleep.
C16_Claim ==
    args.interval <= 0 =>
        /\ calls = <<>>
        /\ sleeps = 0
        /\ pc \notin LoopPcs
        /\ cause # "ValueError"

\* the IP the run starts with: --gateway, else the locator's first answer
InitialIp == IF Truthy(args.gateway) THEN args.gateway ELSE detected[1]

\* the lines "Retrying with detected gateway" logged so far
RetryLines == SelectSeq(events, LAMBDA e : e.line = 142)

\* the lines "Initial gateway MAC for <ip>" logged so far
BaselineLines == SelectSeq(events, LAMBDA e : e.line = 151)

\* C17: once the run has its gateway IP, the IP changes only in the step of
\* line 140-143 that takes the retry, and that step happens at most once;
\* the locator is asked only at lines 126 and 140, before the first sleep;
\* in the loop the IP is the one the baseline was logged for (the locator's
\* last answer if the retry was taken, else the initial IP), and every
\* resolution of the loop is made for it.
C17_GatewayFixed ==
    /\ [](/\ Len(RetryLines) <= 1
          /\ pc \in LoopPcs =>
               /\ gateway_ip = IF Retried THEN Last(detected) ELSE InitialIp
               /\ Len(BaselineLines) = 1
               /\ BaselineLines[1].text[1] = gateway_ip
               /\ \A i \in 1..Len(calls) :
                    calls[i].site = "L162" => calls[i].ip = gateway_ip)
    /\ [][ /\ (pc \notin {"L124", "L126"} /\ gateway_ip' # gateway_ip) =>
                /\ pc = "L140" /\ pc' = "L144"
                /\ ~Retried
                /\ baseline = None
                /\ gateway_ip' = Last(detected')
           /\ detected' # detected => (pc \in {"L126", "L140"} /\ sleeps = 0)
         ]_vars

\* the retry was taken and the loop has polled the detected IP twice
C17_Witness ==
    /\ pc = "L163"
    /\ sleeps = 2
    /\ Retried
    /\ Truthy(args.gateway)
    /\ gateway_ip # args.gateway
    /\ Last(calls) = [ip |-> gateway_ip, site |-> "L162"]

\* the MAC the loop compares with: the expected MAC if set, else the baseline
Reference == IF Truthy(expected) THEN expected ELSE baseline

\* the resolutions the loop has made and compared: all of its calls but the
\* one under way or just returned
LoopResults ==
    LET asked   == Len(SelectSeq(calls, LAMBDA c : c.site = "L162"))
        pending == IF (pc = "L162" /\ rpc # "idle") \/ pc = "L163" THEN 1 ELSE 0
        done    == IF pc = "L163" THEN Len(results) - 1 ELSE Len(results)
    IN  SubSeq(results, done - (asked - pending) + 1, done)

\* the alerts the loop has logged
LoopAlerts == SelectSeq(events, LAMBDA e : e.line \in {169, 172})

\* C18: the event of a cycle depends only on the cycle's resolution and the
\* reference MAC, not on what was logged before: a resolved MAC other than
\* the reference gives one alert with both MACs, the reference MAC gives no
\* event. So the alerts of the loop are, one for one and in order, its
\* resolutions that differ from the reference.
C18_NotLatched ==
    /\ [][ (CycleStep /\ Truthy(current)) =>
             /\ pc' = "L161"
             /\ current = Reference => events' = events
             /\ current # Reference =>
                  /\ Len(events') = Len(events) + 1
                  /\ SubSeq(events', 1, Len(events)) = events
                  /\ IsAlert(Last(events'))
                  /\ Last(events').text \in {<<current, Reference>>, <<Reference, current>>}
         ]_vars
    /\ [](pc \in LoopPcs =>
            LET mism == SelectSeq(LoopResults, LAMBDA r : Truthy(r) /\ r # Reference)
            IN  /\ Len(LoopAlerts) = Len(mism)
                /\ \A i \in 1..Len(mism) :
                     LoopAlerts[i].text \in {<<mism[i], Reference>>, <<Reference, mism[i]>>})

\* two alerts in a row for the same wrong MAC, then a cycle that resolved the
\* reference MAC and logged nothing
C18_Witness ==
    /\ pc = "L161"
    /\ sleeps = 3
    /\ Len(LoopAlerts) = 2
    /\ IsAlert(events[Len(events)]) /\ IsAlert(events[Len(events) - 1])
    /\ events[Len(events)].text = events[Len(events) - 1].text
    /\ current = Reference
    /\ results[Len(results) - 1] # Reference

====
